---- MODULE Spec2Model ----
(***************************************************************************)
(* Indexing reconciliation and job execution of the RAG backend            *)
(* (backend/main.py, backend/db_models.py, backend/db.py,                  *)
(* backend/document_processor.py).                                         *)
(*                                                                         *)
(* Three stores are modelled: the upload directory (fs), the relational    *)
(* catalog (docs, jobs: the COMMITTED rows) and the vector index           *)
(* (chroma: the names of the live collections).  A SQLAlchemy session is   *)
(* modelled by what it has not yet flushed (wk.dirty), so that a commit    *)
(* and a close without commit differ.                                      *)
(***************************************************************************)
EXTENDS Integers, Sequences, FiniteSets, TLC

(* ------------------------------ bounds --------------------------------- *)
\* jobs ever inserted into index_jobs
MaxJobs == 4
\* documents ever inserted into documents (ids are never reused)
MaxDocs == 3
\* steps of the environment (file changes, out-of-band store changes)
MaxEnvSteps == 2
\* largest batch size a caller passes to the worker (the code allows 1..100)
MaxLimit == 2
\* upload requests received
MaxUploads == 2
\* steps of the environment where a removed file comes back (SpecDeep)
MaxDeepEnvSteps == 3
\* files removed from the upload directory behind the back of the upload flow
MaxRemovals == 1

(* --------------------------- finite domains ---------------------------- *)
\* Path p stands for os.path.join(UPLOAD_DIR, <name p>.pdf).
Paths == {1, 2}
\* File contents; two distinct contents have distinct md5 checksums.
Contents == {"x", "y"}
\* Original file names a user uploads.
Filenames == {"paper.pdf"}

\* os.stat(path).st_size of a file holding content c
FileSize(c) == IF c = "x" THEN 10 ELSE 20
\* hashlib.md5 over the file's blocks
Checksum(c) == IF c = "x" THEN "md5x" ELSE "md5y"

NoFile == [content |-> "none", mtime |-> 0]
NoCollection == [kind |-> "none", of |-> 0]
NoName == "none"
\* no upload request is in flight
NoUpload == [path |-> 0, name |-> NoName, content |-> "none"]

\* f"document_{uuid.uuid5(uuid.NAMESPACE_URL, source_path)}"
PathCollection(path) == [kind |-> "uuid5", of |-> path]
\* f"document_{document_id}" for the uuid4 document_id of an upload, whose file
\* is UPLOAD_DIR/<document_id>.pdf: the path identifies the uuid4.
UploadCollection(path) == [kind |-> "uuid4", of |-> path]

(* DocumentStatus, IndexJobType, IndexJobStatus *)
PENDING == "pending"
INDEXING == "indexing"
INDEXED == "indexed"
REINDEXING == "reindexing"
DOC_FAILED == "failed"
DELETED == "deleted"
DocumentStatus == {PENDING, INDEXING, INDEXED, REINDEXING, DOC_FAILED, DELETED}

INDEX == "index"
REINDEX == "reindex"
DELETE == "delete"
IndexJobType == {INDEX, REINDEX, DELETE}

QUEUED == "queued"
RUNNING == "running"
SUCCEEDED == "succeeded"
FAILED == "failed"
IndexJobStatus == {QUEUED, RUNNING, SUCCEEDED, FAILED}

VARIABLES
    fs,        \* upload directory: path -> file (content, mtime) or NoFile
    docs,      \* committed rows of table documents: id -> row
    jobs,      \* committed rows of table index_jobs, in insertion order
    chroma,    \* names of the collections of the vector index
    nextDoc,   \* next fresh document id
    wk,        \* the worker pass in progress (run_index_worker)
    execLog,   \* job ids in the order their capability was invoked
    bg,        \* upload background tasks not yet run (paths)
    env,       \* environment steps taken
    uploads,   \* upload requests received
    up,        \* the upload request in flight, or NoUpload
    rc,        \* a reconciliation pass that has read and not yet written
    wk2        \* a second worker pass, suspended while wk runs

vars == <<fs, docs, jobs, chroma, nextDoc, wk, execLog, bg, env, uploads, up, rc, wk2>>

(* ------------------------------ helpers -------------------------------- *)
Min(S) == CHOOSE x \in S : \A y \in S : x <= y

RECURSIVE SortedSeq(_)
\* the elements of a finite set of integers in ascending order
SortedSeq(S) == IF S = {} THEN <<>> ELSE <<Min(S)>> \o SortedSeq(S \ {Min(S)})

Range(s) == {s[i] : i \in DOMAIN s}

DocIds == DOMAIN docs
JobIds == DOMAIN jobs

\* db_by_path = {doc.source_path: doc for doc in db_docs}
HasDoc(table, path) == \E d \in DOMAIN table : table[d].source_path = path
DocAt(table, path) == CHOOSE d \in DOMAIN table : table[d].source_path = path

\* the fingerprint the scan computes for a file on disk
Meta(path) ==
    [file_size |-> FileSize(fs[path].content),
     mtime     |-> fs[path].mtime,
     checksum  |-> Checksum(fs[path].content)]

IdleWorker ==
    [pc |-> "idle", batch |-> <<>>, pos |-> 1, dirty |-> {}, outcome |-> <<>>,
     processed |-> 0, succeeded |-> 0, failed |-> 0]

\* no reconciliation pass is between its read and its write
NoPass ==
    [pc |-> "idle", ti |-> <<>>, tr |-> <<>>, td |-> <<>>, loaded |-> <<>>,
     seen |-> 0, env |-> 0]

Init ==
    /\ fs = [p \in Paths |-> NoFile]
    /\ docs = <<>>
    /\ jobs = <<>>
    /\ chroma = {}
    /\ nextDoc = 1
    /\ wk = IdleWorker
    /\ execLog = <<>>
    /\ bg = {}
    /\ env = 0
    /\ uploads = 0
    /\ up = NoUpload
    /\ rc = NoPass
    /\ wk2 = IdleWorker

(* --------------------------- the environment --------------------------- *)
\* A file is created, overwritten or touched in the upload directory; the
\* write leaves a modification time other than the one it found.
NewMtime(p) == IF fs[p] = NoFile \/ fs[p].mtime = 2 THEN 1 ELSE 2

FsWrite(p, c, budget) ==
    /\ env < budget
    /\ up.path # p /\ \A t \in bg : t.path # p
    /\ fs' = [fs EXCEPT ![p] = [content |-> c, mtime |-> NewMtime(p)]]
    /\ env' = env + 1
    /\ UNCHANGED <<docs, jobs, chroma, nextDoc, wk, execLog, bg, uploads, up, rc, wk2>>

\* A file is removed from the upload directory.
FsRemove(p, budget) ==
    /\ env < budget
    /\ up.path # p
    /\ fs[p] # NoFile
    /\ fs' = [fs EXCEPT ![p] = NoFile]
    /\ env' = env + 1
    /\ UNCHANGED <<docs, jobs, chroma, nextDoc, wk, execLog, bg, uploads, up, rc, wk2>>

\* A collection disappears from the vector index (the index is mutable on
\* its own: its directory is wiped or restored from an older copy).
ChromaDrop(c, budget) ==
    /\ env < budget
    /\ c \in chroma
    /\ chroma' = chroma \ {c}
    /\ env' = env + 1
    /\ UNCHANGED <<fs, docs, jobs, nextDoc, wk, execLog, bg, uploads, up, rc, wk2>>

\* A documents row is deleted out of band and its jobs stay behind (the
\* store does not enforce the foreign key, as SQLite does not by default).
DbDeleteDocument(d, budget) ==
    /\ env < budget
    /\ d \in DocIds
    /\ docs' = [x \in DocIds \ {d} |-> docs[x]]
    /\ env' = env + 1
    /\ UNCHANGED <<fs, jobs, chroma, nextDoc, wk, execLog, bg, uploads, up, rc, wk2>>

(* ------------------- reconcile_indexes (main.py 869-1035) --------------- *)
Null == "null"
Stamped == "stamped"

\* local_files: the PDFs found by the scan of the upload directory
LocalPaths == {p \in Paths : fs[p] # NoFile}

\* "if not doc: to_index.append(meta)": a path on disk with no documents row
IsNewFile(p) == p \in LocalPaths /\ ~HasDoc(docs, p)

\* Variant: another modification time counts as a change too
IsChangedOrTouched(row, meta) ==
    row.file_size # meta.file_size \/ row.checksum # meta.checksum \/ row.mtime # meta.mtime

\* "doc.file_size != meta['file_size'] or doc.checksum != meta['checksum']"
IsChanged(row, meta) ==
    row.file_size # meta.file_size \/ row.checksum # meta.checksum

\* Variant: the orphan check without the test of the status
IsOrphanAnyStatus(row) == row.source_path \notin LocalPaths

\* "if doc.status != DocumentStatus.DELETED.value: to_delete.append(doc)"
IsOrphan(row) == row.source_path \notin LocalPaths /\ row.status # DELETED

\* Variant: when the listing fails the drift check is skipped, as if every
\* collection were there
ListedCollectionsOrAll(listOk) ==
    IF listOk THEN chroma
    ELSE {PathCollection(p) : p \in Paths} \cup {UploadCollection(p) : p \in Paths}

\* The collections the pass sees: list_collections(), or the empty set when
\* the listing raises or there is no chroma_client.
ListedCollections(listOk) == IF listOk THEN chroma ELSE {}

\* Variant: the expected name is derived as the upload flow derives it
ExpectedCollectionByUpload(row) == UploadCollection(row.source_path)

\* "doc.chroma_collection or f'document_{uuid5(NAMESPACE_URL, doc.source_path)}'"
ExpectedCollection(row) ==
    IF row.chroma_collection # NoCollection
    THEN row.chroma_collection
    ELSE PathCollection(row.source_path)

\* "doc.status == INDEXED and expected_collection not in chroma_collections"
IsChromaMissing(row, listed) ==
    row.status = INDEXED /\ ExpectedCollection(row) \notin listed

\* to_index, in the order of the scan
ToIndex == SortedSeq({p \in Paths : IsNewFile(p)})

\* The changed files, in the order of the scan, each with the new fingerprint
ChangedEntries ==
    LET ps == SortedSeq({p \in LocalPaths :
                  HasDoc(docs, p) /\ IsChanged(docs[DocAt(docs, p)], Meta(p))})
    IN  [i \in DOMAIN ps |-> [doc |-> DocAt(docs, ps[i]), meta |-> Meta(ps[i])]]

\* Variant: the entries for missing collections carry the fingerprint of the
\* file on disk
ChromaMissingEntriesFromDisk(listed) ==
    LET ds == SortedSeq({d \in DocIds : IsChromaMissing(docs[d], listed)})
    IN  [i \in DOMAIN ds |-> [doc |-> ds[i], meta |-> Meta(docs[ds[i]].source_path)]]

\* The INDEXED documents whose collection is not listed, each with the
\* fingerprint stored in its row when the entry is built
ChromaMissingEntries(listed) ==
    LET ds == SortedSeq({d \in DocIds : IsChromaMissing(docs[d], listed)})
    IN  [i \in DOMAIN ds |->
            [doc  |-> ds[i],
             meta |-> [file_size |-> docs[ds[i]].file_size,
                       mtime     |-> docs[ds[i]].mtime,
                       checksum  |-> docs[ds[i]].checksum]]]

\* to_reindex: the changed files first, then the missing collections
ToReindex(listed) == ChangedEntries \o ChromaMissingEntries(listed)

\* to_delete
ToDelete == SortedSeq({d \in DocIds : IsOrphan(docs[d])})

\* Variant: the new row is created as if it were indexed already
NewDocumentAsIndexed(p) ==
    [source_path       |-> p,
     filename          |-> NoName,
     file_size         |-> Meta(p).file_size,
     mtime             |-> Meta(p).mtime,
     checksum          |-> Meta(p).checksum,
     status            |-> INDEXED,
     chroma_collection |-> NoCollection,
     version           |-> 1]

\* Document(source_path=..., status=PENDING, chroma_collection=None, version=1)
NewDocument(p) ==
    [source_path       |-> p,
     filename          |-> NoName,
     file_size         |-> Meta(p).file_size,
     mtime             |-> Meta(p).mtime,
     checksum          |-> Meta(p).checksum,
     status            |-> PENDING,
     chroma_collection |-> NoCollection,
     version           |-> 1]

\* IndexJob(document_id=..., job_type=..., job_status=QUEUED, created_at=utcnow());
\* created_at is the position on a clock that advances with every insert.
\* Variant: the job is created without the id of its document
NewJobUnbound(d, type, at) ==
    [document_id   |-> 0,
     job_type      |-> type,
     job_status    |-> QUEUED,
     error_message |-> Null,
     finished_at   |-> Null,
     created_at    |-> at]

NewJob(d, type, at) ==
    [document_id   |-> d,
     job_type      |-> type,
     job_status    |-> QUEUED,
     error_message |-> Null,
     finished_at   |-> Null,
     created_at    |-> at]

\* "for meta in to_index: db.add(doc); db.flush()": ids from first on
ApplyIndex(table, ti, first) ==
    LET new == [i \in DOMAIN ti |-> NewDocument(ti[i])]
    IN  [d \in DOMAIN table \cup {first + i - 1 : i \in DOMAIN ti} |->
            IF d \in DOMAIN table THEN table[d] ELSE new[d - first + 1]]

\* Variant: the pass counts the change as a new version
MarkChangedBumped(row, meta) ==
    [row EXCEPT !.file_size = meta.file_size,
                !.mtime = meta.mtime,
                !.checksum = meta.checksum,
                !.status = REINDEXING,
                !.version = @ + 1]

\* one iteration of "for doc, meta in to_reindex"
MarkChanged(row, meta) ==
    [row EXCEPT !.file_size = meta.file_size,
                !.mtime = meta.mtime,
                !.checksum = meta.checksum,
                !.status = REINDEXING]

RECURSIVE ApplyReindex(_, _)
ApplyReindex(table, tr) ==
    IF tr = <<>> THEN table
    ELSE ApplyReindex(
             [table EXCEPT ![Head(tr).doc] = MarkChanged(@, Head(tr).meta)],
             Tail(tr))

\* Variant: the orphans get their jobs but keep their status
ApplyDeleteUnmarked(table, td) == table

\* "for doc in to_delete: doc.status = DELETED"
ApplyDelete(table, td) ==
    [d \in DOMAIN table |->
        IF d \in Range(td) THEN [table[d] EXCEPT !.status = DELETED] ELSE table[d]]

\* The jobs of one pass in the order they are inserted
JobPlan(ti, tr, td, first) ==
    [i \in DOMAIN ti |-> [doc |-> first + i - 1, type |-> INDEX]]
    \o [i \in DOMAIN tr |-> [doc |-> tr[i].doc, type |-> REINDEX]]
    \o [i \in DOMAIN td |-> [doc |-> td[i], type |-> DELETE]]

reconcile_indexes(listOk) ==
    /\ wk.pc = "idle"
    /\ LET listed == ListedCollections(listOk)
           ti == ToIndex
           tr == ToReindex(listed)
           td == ToDelete
           plan == JobPlan(ti, tr, td, nextDoc)
       IN  /\ Len(jobs) + Len(plan) <= MaxJobs
           /\ nextDoc + Len(ti) - 1 <= MaxDocs
           /\ docs' = ApplyDelete(ApplyReindex(ApplyIndex(docs, ti, nextDoc), tr), td)
           /\ jobs' = jobs \o [i \in DOMAIN plan |->
                                 NewJob(plan[i].doc, plan[i].type, Len(jobs) + i)]
           /\ nextDoc' = nextDoc + Len(ti)
    /\ UNCHANGED <<fs, chroma, wk, execLog, bg, env, uploads, up, rc, wk2>>

\* Variant: what the session had flushed when the pass failed stays stored
KeepFlushed(committed, session) == session

\* get_db's "finally: db.close()" after an exception: the pass never reached
\* db.commit(), the session's inserts and updates are rolled back
Rollback(committed, session) == committed

\* A pass in which a statement or the commit raises: the handler is left by
\* the exception and the session is closed without commit.
reconcile_indexes_failed(listOk) ==
    /\ wk.pc = "idle"
    /\ LET listed == ListedCollections(listOk)
           ti == ToIndex
           tr == ToReindex(listed)
           td == ToDelete
           plan == JobPlan(ti, tr, td, nextDoc)
       IN  /\ Len(jobs) + Len(plan) <= MaxJobs
           /\ nextDoc + Len(ti) - 1 <= MaxDocs
           /\ docs' = Rollback(docs,
                         ApplyDelete(ApplyReindex(ApplyIndex(docs, ti, nextDoc), tr), td))
           /\ jobs' = Rollback(jobs,
                         jobs \o [i \in DOMAIN plan |->
                                    NewJob(plan[i].doc, plan[i].type, Len(jobs) + i)])
    /\ UNCHANGED <<fs, chroma, nextDoc, wk, execLog, bg, env, uploads, up, rc, wk2>>

(* ------------------ run_index_worker (main.py 1039-1108) ---------------- *)
RECURSIVE OrderByCreatedDesc(_)
\* Variant: the newest job first
OrderByCreatedDesc(S) ==
    IF S = {} THEN <<>>
    ELSE LET j == CHOOSE x \in S : \A y \in S : jobs[x].created_at >= jobs[y].created_at
         IN  <<j>> \o OrderByCreatedDesc(S \ {j})

RECURSIVE OrderByCreated(_)
\* ".order_by(IndexJob.created_at.asc())" over a set of job ids
OrderByCreated(S) ==
    IF S = {} THEN <<>>
    ELSE LET j == CHOOSE x \in S : \A y \in S : jobs[x].created_at <= jobs[y].created_at
         IN  <<j>> \o OrderByCreated(S \ {j})

\* ".limit(limit)"
Take(s, n) == SubSeq(s, 1, IF Len(s) < n THEN Len(s) ELSE n)

\* Variant: jobs left RUNNING are selected again
SelectQueuedOrRunning(limit) ==
    Take(OrderByCreated({j \in JobIds : jobs[j].job_status \in {QUEUED, RUNNING}}), limit)

\* Variant: failed jobs are selected again
SelectQueuedOrFailed(limit) ==
    Take(OrderByCreated({j \in JobIds : jobs[j].job_status \in {QUEUED, FAILED}}), limit)

\* "db.query(IndexJob).filter(job_status == QUEUED).order_by(created_at.asc())
\*  .limit(limit).all()"
SelectQueued(limit) ==
    Take(OrderByCreated({j \in JobIds : jobs[j].job_status = QUEUED}), limit)

\* ".filter(job_status == QUEUED).count()": the committed rows, the session
\* being configured with autoflush=False (db.py 23)
Remaining == Cardinality({j \in JobIds : jobs[j].job_status = QUEUED})

\* "job.job_status = FAILED; job.error_message = 'Document not found';
\*  job.finished_at = utcnow()"
MarkNotFound(job) ==
    [job EXCEPT !.job_status = FAILED,
                !.error_message = "Document not found",
                !.finished_at = Stamped]

\* Variant: a guarded claim, only a job stored QUEUED is marked
MarkRunningIfQueued(job) ==
    IF job.job_status = QUEUED THEN [job EXCEPT !.job_status = RUNNING] ELSE job

\* Variant: the job is not marked before it is executed
MarkRunningSkipped(job) == job

\* "job.job_status = RUNNING"
MarkRunning(job) == [job EXCEPT !.job_status = RUNNING]

\* Variant: the success of the job is not written with the changes of the row
MarkSucceededNotStored(job) == job

\* "job.job_status = SUCCEEDED; job.finished_at = utcnow()"
MarkSucceeded(job) == [job EXCEPT !.job_status = SUCCEEDED, !.finished_at = Stamped]

\* Variant: a failure is stored without its finished timestamp
MarkFailedNoStamp(job, msg) == [job EXCEPT !.job_status = FAILED, !.error_message = msg]

\* "except Exception as e: job.job_status = FAILED; job.error_message = str(e);
\*  job.finished_at = utcnow()"
MarkFailed(job, msg) ==
    [job EXCEPT !.job_status = FAILED, !.error_message = msg, !.finished_at = Stamped]

\* db.commit(): the rows the session holds changed are written; dirty holds the
\* jobs marked 'Document not found' and not yet flushed.
Commit(table, dirty) ==
    [j \in DOMAIN table |-> IF j \in dirty THEN MarkNotFound(table[j]) ELSE table[j]]

\* "if not doc: ...; failed += 1; continue": no commit, processed not counted
Skip(w, j) ==
    [w EXCEPT !.dirty = @ \cup {j},
              !.failed = @ + 1,
              !.outcome = Append(@, "missing"),
              !.pos = @ + 1]

\* Variant: a failure ends the loop, the jobs after it are not visited
FinishOrAbort(w, tag) ==
    [w EXCEPT !.pc = "loop",
              !.pos = IF tag = "ok" THEN @ + 1 ELSE Len(w.batch) + 1,
              !.processed = @ + 1,
              !.succeeded = IF tag = "ok" THEN @ + 1 ELSE @,
              !.failed = IF tag = "ok" THEN @ ELSE @ + 1,
              !.outcome = Append(@, tag)]

\* The end of one iteration of the loop: the counters, "finally: processed += 1",
\* and on to the next job whether this one succeeded or failed.
Finish(w, tag) ==
    [w EXCEPT !.pc = "loop",
              !.pos = @ + 1,
              !.processed = @ + 1,
              !.succeeded = IF tag = "ok" THEN @ + 1 ELSE @,
              !.failed = IF tag = "ok" THEN @ ELSE @ + 1,
              !.outcome = Append(@, tag)]

\* The query that selects the batch.
run_index_worker_select(limit) ==
    /\ wk.pc = "idle"
    /\ wk' = [IdleWorker EXCEPT !.pc = "loop", !.batch = SelectQueued(limit)]
    /\ UNCHANGED <<fs, docs, jobs, chroma, nextDoc, execLog, bg, env, uploads, up, rc, wk2>>

\* "doc = db.query(Document).get(job.document_id)", then either the
\* 'Document not found' branch or "job.job_status = RUNNING; db.commit()".
run_index_worker_claim ==
    /\ wk.pc = "loop"
    /\ wk.pos <= Len(wk.batch)
    /\ LET j == wk.batch[wk.pos]
       IN  IF jobs[j].document_id \notin DocIds
           THEN /\ wk' = Skip(wk, j)
                /\ jobs' = jobs
           ELSE /\ jobs' = [Commit(jobs, wk.dirty) EXCEPT ![j] = MarkRunning(@)]
                /\ wk' = [wk EXCEPT !.pc = "exec", !.dirty = {}]
    /\ UNCHANGED <<fs, docs, chroma, nextDoc, execLog, bg, env, uploads, up, rc, wk2>>

\* document_processor.cleanup_document(str(doc_uuid)): the collection named
\* from the path is dropped if it exists; every error is swallowed.
cleanup_document(coll) == chroma \ {coll}

\* Variant: the file is taken to exist
FileAssumed(path) == TRUE

\* "os.path.exists(file_path)"
FileExists(path) == fs[path] # NoFile

\* "doc.status = INDEXED; doc.chroma_collection = f'document_{doc_uuid}';
\*  doc.version = doc.version + 1"
MarkIndexed(row) ==
    [row EXCEPT !.status = INDEXED,
                !.chroma_collection = PathCollection(row.source_path),
                !.version = @ + 1]

\* Variant: the except block marks the document failed
OnExceptionDocFailed(table, d) == [table EXCEPT ![d].status = DOC_FAILED]

\* What the except block leaves in table documents for the job's document d:
\* it assigns to the job only, the row is as it was before the job.
OnException(table, d) == table

\* The body of the try block after the commit of RUNNING, with the commit in
\* "finally".  how: what process_pdf does ("ok", "raise_early" before the
\* collection is created, "raise_late" after get_or_create_collection).
run_index_worker_execute(how) ==
    /\ wk.pc = "exec"
    /\ LET j == wk.batch[wk.pos]
           d == jobs[j].document_id
       IN  IF d \notin DocIds
           THEN \* the row vanished after the commit: loading doc.source_path raises
                /\ how = "ok"
                /\ jobs' = [jobs EXCEPT ![j] = MarkFailed(@, "row deleted")]
                /\ wk' = Finish(wk, "vanished")
                /\ UNCHANGED <<docs, chroma, execLog>>
           ELSE IF jobs[j].job_type = DELETE
           THEN /\ how = "ok"
                /\ chroma' = cleanup_document(PathCollection(docs[d].source_path))
                /\ docs' = [docs EXCEPT ![d].status = DELETED]
                /\ jobs' = [jobs EXCEPT ![j] = MarkSucceeded(@)]
                /\ execLog' = Append(execLog, j)
                /\ wk' = Finish(wk, "ok")
           ELSE IF ~FileExists(docs[d].source_path)
           THEN /\ how = "ok"
                /\ jobs' = [jobs EXCEPT ![j] = MarkFailed(@, "file not found")]
                /\ docs' = OnException(docs, d)
                /\ wk' = Finish(wk, "file_missing")
                /\ UNCHANGED <<chroma, execLog>>
           ELSE /\ execLog' = Append(execLog, j)
                /\ chroma' = IF how = "raise_early" THEN chroma
                             ELSE chroma \cup {PathCollection(docs[d].source_path)}
                /\ IF how = "ok"
                   THEN /\ docs' = [docs EXCEPT ![d] = MarkIndexed(@)]
                        /\ jobs' = [jobs EXCEPT ![j] = MarkSucceeded(@)]
                        /\ wk' = Finish(wk, "ok")
                   ELSE /\ docs' = OnException(docs, d)
                        /\ jobs' = [jobs EXCEPT ![j] = MarkFailed(@, "processing failed")]
                        /\ wk' = Finish(wk, "raised")
    /\ UNCHANGED <<fs, nextDoc, bg, env, uploads, up, rc, wk2>>

\* The report, and get_db's "finally: db.close()": what was not committed is
\* rolled back.
run_index_worker_return ==
    /\ wk.pc = "loop"
    /\ wk.pos > Len(wk.batch)
    /\ wk' = IdleWorker
    /\ UNCHANGED <<fs, docs, jobs, chroma, nextDoc, execLog, bg, env, uploads, up, rc, wk2>>

\* The server process dies while a job is executed (after the commit of
\* RUNNING at 1068, before the commit in "finally" at 1101): what the session
\* holds is lost, the job stays stored RUNNING.  at: "before" the capability
\* was called, "during" it, or "stored" when it had written the index.
run_index_worker_crash(at) ==
    /\ wk.pc = "exec"
    /\ LET j == wk.batch[wk.pos]
           d == jobs[j].document_id
       IN  IF at = "before" \/ d \notin DocIds
           THEN at = "before" /\ UNCHANGED <<chroma, execLog>>
           ELSE IF jobs[j].job_type = DELETE
           THEN /\ at = "stored"
                /\ chroma' = cleanup_document(PathCollection(docs[d].source_path))
                /\ execLog' = Append(execLog, j)
           ELSE /\ FileExists(docs[d].source_path)
                /\ chroma' = IF at = "stored"
                             THEN chroma \cup {PathCollection(docs[d].source_path)}
                             ELSE chroma
                /\ execLog' = Append(execLog, j)
    /\ wk' = IdleWorker
    /\ UNCHANGED <<fs, docs, jobs, nextDoc, bg, env, uploads, up, rc, wk2>>

\* "result = await document_processor.process_pdf(...)": the pass is suspended
\* in the execution of an INDEX or REINDEX job (a DELETE job has no await)
AtAwait(w) ==
    /\ w.pc = "exec"
    /\ jobs[w.batch[w.pos]].job_type \in {INDEX, REINDEX}

\* The event loop switches between two calls of the worker: the call that ran
\* (wk) has returned or is suspended at its await, the other call (wk2) starts
\* or goes on.
run_index_worker_switch ==
    /\ wk.pc = "idle" \/ AtAwait(wk)
    /\ wk # wk2
    /\ wk' = wk2
    /\ wk2' = wk
    /\ UNCHANGED <<fs, docs, jobs, chroma, nextDoc, execLog, bg, env, uploads, up, rc>>

(* ------------ the result of reconcile_indexes (main.py 1017-1035) ------- *)
\* "[:5]"
SampleSize == 5

\* "summary": the lengths of the plan and the counters of the apply loops:
\* created and enqueued count the entries of to_index, updated and enqueued
\* the entries of to_reindex and of to_delete
ReconcileSummary(listOk) ==
    LET listed == ListedCollections(listOk)
        ti == ToIndex
        tr == ToReindex(listed)
        td == ToDelete
    IN  [local_files    |-> Cardinality(LocalPaths),
         db_records     |-> Cardinality(DocIds),
         to_index       |-> Len(ti),
         to_reindex     |-> Len(tr),
         to_delete      |-> Len(td),
         chroma_missing |-> Len(ChromaMissingEntries(listed)),
         created        |-> Len(ti),
         updated        |-> Len(tr) + Len(td),
         enqueued       |-> Len(ti) + Len(tr) + Len(td)]

\* "samples": the first paths of each list
ReconcileSamples(listOk) ==
    LET listed == ListedCollections(listOk)
        tr == ToReindex(listed)
        cm == ChromaMissingEntries(listed)
    IN  [index          |-> Take(ToIndex, SampleSize),
         reindex        |-> Take([i \in DOMAIN tr |-> docs[tr[i].doc].source_path], SampleSize),
         delete         |-> Take([i \in DOMAIN ToDelete |-> docs[ToDelete[i]].source_path],
                                 SampleSize),
         chroma_missing |-> Take([i \in DOMAIN cm |-> docs[cm[i].doc].source_path], SampleSize)]

(* ------------- initialize_document_status (main.py 85-145) -------------- *)
\* What the start-up pass (also POST /admin/refresh-document-status) leaves in
\* a row: pending becomes indexed when the file exists, and any row whose file
\* is gone becomes deleted.
RestoredStatus(row) ==
    IF fs[row.source_path] # NoFile
    THEN IF row.status = PENDING THEN INDEXED ELSE row.status
    ELSE DELETED

initialize_document_status ==
    /\ wk.pc = "idle"
    /\ docs' = [d \in DocIds |-> [docs[d] EXCEPT !.status = RestoredStatus(docs[d])]]
    /\ UNCHANGED <<fs, jobs, chroma, nextDoc, wk, execLog, bg, env, uploads, up, rc, wk2>>


(* ---------------- upload_document (main.py 286-381) --------------------- *)
\* check_duplicate_file: a non-deleted row with the same original file name,
\* or with the same checksum
check_duplicate_file(name, checksum) ==
    \/ \E d \in DocIds : docs[d].filename = name /\ docs[d].status # DELETED
    \/ \E d \in DocIds : docs[d].checksum = checksum /\ docs[d].status # DELETED

\* Document(id=document_id, source_path=file_path, filename=filename, ...,
\* status="pending"); version takes the column default 1
UploadedDocument(p, name, c) ==
    [source_path       |-> p,
     filename          |-> name,
     file_size         |-> FileSize(c),
     mtime             |-> 1,
     checksum          |-> Checksum(c),
     status            |-> PENDING,
     chroma_collection |-> NoCollection,
     version           |-> 1]

\* Variant: the column without its unique constraint
NoUniqueConstraint(table, p) == FALSE

\* "source_path = Column(Text, nullable=False, unique=True)": the insert of a
\* row whose path another row already has, whatever its status, is refused
UniqueViolation(table, p) == HasDoc(table, p)

\* The request up to the awaits inside "async with aiofiles.open(file_path,
\* 'wb')": the file exists under a fresh uuid4 name p while the handler is
\* suspended, and a scan that runs meanwhile reads the content seen (the whole
\* file or a part of it, which is another content).
upload_document_save(p, name, c, seen) ==
    /\ wk.pc = "idle"
    /\ up = NoUpload
    /\ uploads < MaxUploads
    /\ fs[p] = NoFile /\ ~HasDoc(docs, p) /\ \A t \in bg : t.path # p
    /\ fs' = [fs EXCEPT ![p] = [content |-> seen, mtime |-> 1]]
    /\ up' = [path |-> p, name |-> name, content |-> c]
    /\ uploads' = uploads + 1
    /\ UNCHANGED <<docs, jobs, chroma, nextDoc, wk, execLog, bg, env, rc, wk2>>

\* The rest of the request: the file is complete; a duplicate is answered 400
\* after the saved file is removed again; an insert the unique constraint
\* refuses raises, is answered 500 and the session is rolled back; otherwise
\* the row is committed and the background task is scheduled.
upload_document ==
    /\ up # NoUpload
    /\ nextDoc <= MaxDocs
    /\ LET p       == up.path
           written == [fs EXCEPT ![p] = [content |-> up.content, mtime |-> 1]]
       IN  IF check_duplicate_file(up.name, Checksum(up.content))
           THEN /\ fs' = [fs EXCEPT ![p] = NoFile]
                /\ UNCHANGED <<docs, nextDoc, bg>>
           ELSE IF UniqueViolation(docs, p)
           THEN /\ fs' = written
                /\ UNCHANGED <<docs, nextDoc, bg>>
           ELSE /\ fs' = written
                /\ docs' = docs @@ (nextDoc :> UploadedDocument(p, up.name, up.content))
                /\ nextDoc' = nextDoc + 1
                /\ bg' = bg \cup {[doc |-> nextDoc, path |-> p]}
    /\ up' = NoUpload
    /\ UNCHANGED <<jobs, chroma, wk, execLog, env, uploads, rc, wk2>>

(* ----------- process_document_background (main.py 505-555) -------------- *)
\* process_pdf(file_path, document_id) fills the collection named from the
\* uuid4 document_id; only a completed run touches the row ("indexed").  An
\* error of process_pdf is raised, never returned, so the row is left alone.
\* Variant: a failure of process_pdf is returned as a result
process_pdf_returning_error(how) == IF how = "ok" THEN "completed" ELSE "error"

\* result["status"] of process_pdf: "completed" for a run that reaches its
\* end; a failure is raised ("raise e"), no result is returned
process_pdf(how) == IF how = "ok" THEN "completed" ELSE "raised"

\* "if result['status'] == 'completed': document.status = 'indexed'
\*  elif result['status'] == 'error': document.status = 'error'"; when
\* process_pdf raised these statements are not reached
BackgroundStatus(status, result) ==
    IF result = "completed" THEN INDEXED
    ELSE IF result = "error" THEN "error"
    ELSE status

process_document_background(t, how) ==
    /\ wk.pc = "idle"
    /\ t \in bg
    /\ bg' = bg \ {t}
    /\ IF fs[t.path] = NoFile
       THEN how = "raise_early" /\ UNCHANGED <<docs, chroma>>
       ELSE /\ chroma' = IF how = "raise_early" THEN chroma
                         ELSE chroma \cup {UploadCollection(t.path)}
            /\ docs' = IF t.doc \in DocIds
                       THEN [docs EXCEPT ![t.doc].status = BackgroundStatus(@, process_pdf(how))]
                       ELSE docs
    /\ UNCHANGED <<fs, jobs, nextDoc, wk, execLog, env, uploads, up, rc, wk2>>

(* ------------------ delete_document (main.py 814-865) ------------------- *)
\* A user deletes a document they uploaded: the row is marked deleted, then
\* cleanup_document(document_id) drops the collection named from the uuid4
\* and removes UPLOAD_DIR/<document_id>.pdf.
delete_document(d) ==
    /\ wk.pc = "idle"
    /\ d \in DocIds
    /\ docs[d].filename # NoName
    /\ docs' = [docs EXCEPT ![d].status = DELETED]
    /\ chroma' = cleanup_document(UploadCollection(docs[d].source_path))
    /\ fs' = [fs EXCEPT ![docs[d].source_path] = NoFile]
    /\ UNCHANGED <<jobs, nextDoc, wk, execLog, bg, env, uploads, up, rc, wk2>>


(* ------------- reconcile_indexes in a second process ------------------ *)
(* A pass served by another server process on the same database: what it reads
   (the scan, "db.query(Document).all()", the listing) and what it writes
   ("db.commit()") are separated by the steps of the other requests. *)
\* The pass up to the end of the drift check: its lists, made from the rows
\* loaded into its session
reconcile_indexes_read(listOk) ==
    /\ rc = NoPass
    /\ rc' = [pc   |-> "read",
              ti   |-> [i \in DOMAIN ToIndex |-> NewDocument(ToIndex[i])],
              tr   |-> ToReindex(ListedCollections(listOk)),
              td   |-> ToDelete,
              loaded |-> docs,
              seen |-> Len(jobs),
              env  |-> env]
    /\ UNCHANGED <<fs, docs, jobs, chroma, nextDoc, wk, execLog, bg, env, uploads, up, wk2>>

\* db.commit() flushes the session: the UPDATE of a row sets the columns whose
\* value in the session differs from the value loaded, the others keep what
\* the stored row holds by now
Flush(stored, loaded, session) ==
    [c \in DOMAIN stored |-> IF session[c] # loaded[c] THEN session[c] ELSE stored[c]]

\* The inserts and updates of the pass and its commit.  An insert the unique
\* constraint on source_path refuses, or an update of a row that is gone,
\* raises and the pass is rolled back.
reconcile_indexes_write ==
    /\ rc.pc = "read"
    /\ LET ti   == rc.ti
           tr   == rc.tr
           td   == rc.td
           plan == JobPlan(ti, tr, td, nextDoc)
           new  == {nextDoc + i - 1 : i \in DOMAIN ti}
           session == ApplyDelete(ApplyReindex(rc.loaded, tr), td)
           raises ==
               \/ \E i \in DOMAIN ti : UniqueViolation(docs, ti[i].source_path)
               \/ \E i \in DOMAIN tr : tr[i].doc \notin DocIds
               \/ \E i \in DOMAIN td : td[i] \notin DocIds
       IN  IF raises
           THEN UNCHANGED <<docs, jobs, nextDoc>>
           ELSE /\ Len(jobs) + Len(plan) <= MaxJobs
                /\ nextDoc + Len(ti) - 1 <= MaxDocs
                /\ docs' = [d \in DocIds \cup new |->
                               IF d \in new THEN ti[d - nextDoc + 1]
                               ELSE IF d \in DOMAIN rc.loaded
                               THEN Flush(docs[d], rc.loaded[d], session[d])
                               ELSE docs[d]]
                /\ jobs' = jobs \o [i \in DOMAIN plan |->
                                      NewJob(plan[i].doc, plan[i].type, Len(jobs) + i)]
                /\ nextDoc' = nextDoc + Len(ti)
    /\ rc' = NoPass
    /\ UNCHANGED <<fs, chroma, wk, execLog, bg, env, uploads, up, wk2>>


\* The environment, allowed budget steps in all
Environment(budget) ==
    \/ \E p \in Paths, c \in Contents : FsWrite(p, c, budget)
    \/ \E p \in Paths : FsRemove(p, budget)
    \/ \E c \in chroma : ChromaDrop(c, budget)
    \/ \E d \in DocIds : DbDeleteDocument(d, budget)

\* The admin operations: reconciliation, the worker, the start-up pass
Admin ==
    \/ \E listOk \in BOOLEAN : reconcile_indexes(listOk)
    \/ \E listOk \in BOOLEAN : reconcile_indexes_failed(listOk)
    \/ \E limit \in 1..MaxLimit : run_index_worker_select(limit)
    \/ run_index_worker_claim
    \/ \E how \in {"ok", "raise_early", "raise_late"} : run_index_worker_execute(how)
    \/ run_index_worker_return
    \/ initialize_document_status

\* The upload flow of the API layer
Upload ==
    \/ \E p \in Paths, name \in Filenames, c \in Contents, seen \in Contents :
           upload_document_save(p, name, c, seen)
    \/ upload_document
    \/ \E t \in bg, how \in {"ok", "raise_early", "raise_late"} :
           process_document_background(t, how)
    \/ \E d \in DocIds : delete_document(d)

Next == Environment(MaxEnvSteps) \/ Admin

NextUpload == Admin \/ Upload

\* The reconciliation and job execution subsystem and its environment
Spec == Init /\ [][Next]_vars

NextDeep == Environment(MaxDeepEnvSteps) \/ Admin

\* The same subsystem with one more step of the environment, enough for a
\* file to be written, removed and written again
SpecDeep == Init /\ [][NextDeep]_vars

\* The admin operations together with the upload flow of the API layer, the
\* upload directory being written by uploads only
SpecUpload == Init /\ [][NextUpload]_vars

\* One step of a worker pass: the call, or the next statement of a call in
\* progress
run_index_worker ==
    \/ \E limit \in 1..MaxLimit : run_index_worker_select(limit)
    \/ run_index_worker_claim
    \/ \E how \in {"ok", "raise_early", "raise_late"} : run_index_worker_execute(how)
    \/ run_index_worker_return

NextUploadRemove ==
    \/ \E listOk \in BOOLEAN : reconcile_indexes(listOk)
    \/ run_index_worker
    \/ Upload
    \/ \E p \in Paths : FsRemove(p, MaxRemovals)

\* Reconciliation, the worker and the upload flow, with files of the upload
\* directory removed by hand
SpecUploadRemove == Init /\ [][NextUploadRemove]_vars

\* Reconciliation passes of two server processes
Overlap ==
    \/ \E listOk \in BOOLEAN : reconcile_indexes_read(listOk)
    \/ reconcile_indexes_write

NextOverlap == Environment(MaxEnvSteps) \/ Admin \/ Overlap

\* The subsystem served by two processes: a reconciliation pass of the second
\* process overlaps the requests of the first
SpecOverlap == Init /\ [][NextOverlap]_vars

NextConcurrent == Environment(MaxEnvSteps) \/ Admin \/ run_index_worker_switch

\* The subsystem with two calls of the worker in progress at a time
SpecConcurrent == Init /\ [][NextConcurrent]_vars

NextCrash ==
    \/ Next
    \/ \E at \in {"before", "during", "stored"} : run_index_worker_crash(at)

\* The subsystem with a server that may die in the middle of a job and is
\* started again
SpecCrash == Init /\ [][NextCrash]_vars

\* The subsystem with the worker called again and again, each call running to
\* its end; the caller chooses the bound of every call
SpecLive == Init /\ [][Next]_vars /\ WF_vars(run_index_worker)

\* A worker pass in which every capability call succeeds
run_index_worker_ok ==
    \/ \E limit \in 1..MaxLimit : run_index_worker_select(limit)
    \/ run_index_worker_claim
    \/ run_index_worker_execute("ok")
    \/ run_index_worker_return

\* Anything may happen while the environment still acts; once it has stopped
\* (its budget is used up) only reconciliation passes with a working listing
\* and worker passes whose processing succeeds are run.
NextConverge ==
    \/ env < MaxEnvSteps /\ Next
    \/ env = MaxEnvSteps /\ reconcile_indexes(TRUE)
    \/ env = MaxEnvSteps /\ run_index_worker_ok

\* ... and both are run again and again
SpecConverge ==
    /\ Init
    /\ [][NextConverge]_vars
    /\ SF_vars(reconcile_indexes(TRUE))
    /\ SF_vars(run_index_worker_ok)


(* ======================================================================= *)
(* Properties                                                              *)
(* ======================================================================= *)
\* a step that is one reconciliation pass
ReconcileStep == \E listOk \in BOOLEAN : reconcile_indexes(listOk)

\* the jobs a step inserts for document d
InsertedJobs(d) == {j \in DOMAIN jobs' : j \notin DOMAIN jobs /\ jobs'[j].document_id = d}
InsertedJobsOfType(d, type) == {j \in InsertedJobs(d) : jobs'[j].job_type = type}

OnDisk(row) == fs[row.source_path] # NoFile

(* C1: a reconciliation pass that follows a reconciliation pass, with nothing
   changed in between, creates no Document and enqueues no job: the plan
   computed in the state a pass leaves is empty. *)
C1_SecondPassEmpty ==
    [][reconcile_indexes(TRUE) =>
          /\ Len(ToIndex') = 0
          /\ Len(ToReindex(ListedCollections(TRUE))') = 0
          /\ Len(ToDelete') = 0]_vars

(* C2: for every PDF on disk whose path has no Document, one pass creates
   exactly one Document for the path (PENDING, version 1, no collection) and
   exactly one job for it, of type INDEX and status QUEUED. *)
C2_NewFileDetected ==
    [][ReconcileStep =>
          \A p \in Paths : IsNewFile(p) =>
              /\ Cardinality({d \in DOMAIN docs' : docs'[d].source_path = p}) = 1
              /\ LET d == DocAt(docs', p)
                 IN  /\ d \notin DocIds
                     /\ docs'[d].status = PENDING
                     /\ docs'[d].version = 1
                     /\ docs'[d].chroma_collection = NoCollection
                     /\ Cardinality({j \in DOMAIN jobs' : jobs'[j].document_id = d}) = 1
                     /\ \A j \in InsertedJobs(d) :
                            jobs'[j].job_type = INDEX /\ jobs'[j].job_status = QUEUED]_vars

\* a Document created by a pass, still PENDING, with its INDEX job queued
C2_Witness ==
    \E d \in DocIds : \E j \in JobIds :
        /\ docs[d].status = PENDING /\ docs[d].version = 1
        /\ jobs[j].document_id = d /\ jobs[j].job_type = INDEX
        /\ jobs[j].job_status = QUEUED

(* C3: for every Document whose file is on disk with another size or checksum
   than stored, one pass sets the status to REINDEXING and enqueues exactly one
   REINDEX job, whatever the previous status and the state of the index. *)
C3_ChangeDetected ==
    [][ReconcileStep =>
          \A d \in DocIds :
              (OnDisk(docs[d]) /\ IsChanged(docs[d], Meta(docs[d].source_path))) =>
                  /\ docs'[d].status = REINDEXING
                  /\ Cardinality(InsertedJobs(d)) = 1
                  /\ \A j \in InsertedJobs(d) :
                         jobs'[j].job_type = REINDEX /\ jobs'[j].job_status = QUEUED]_vars

(* C4: for every Document that is not DELETED and whose file is no longer on
   disk, one pass sets the status to DELETED and enqueues exactly one DELETE
   job; a Document that is already DELETED (its file gone) gets no job and is
   left as it is. *)
C4_OrphanDetected ==
    [][ReconcileStep =>
          \A d \in DocIds : ~OnDisk(docs[d]) =>
              IF docs[d].status # DELETED
              THEN /\ docs'[d].status = DELETED
                   /\ Cardinality(InsertedJobsOfType(d, DELETE)) = 1
                   /\ \A j \in InsertedJobsOfType(d, DELETE) : jobs'[j].job_status = QUEUED
              ELSE /\ docs'[d] = docs[d]
                   /\ InsertedJobs(d) = {}]_vars

\* a Document marked DELETED whose file is gone, with its DELETE job queued
C4_Witness ==
    \E d \in DocIds : \E j \in JobIds :
        /\ docs[d].status = DELETED /\ ~OnDisk(docs[d])
        /\ jobs[j].document_id = d /\ jobs[j].job_type = DELETE
        /\ jobs[j].job_status = QUEUED

(* C5: for every INDEXED Document whose expected collection (the stored pointer,
   else the name derived from the path) is not among the collections the pass
   listed, one pass enqueues a REINDEX job and leaves file_size, checksum and
   mtime as stored; an INDEXED Document whose collection is listed gets no job
   for drift (a REINDEX job only if its file changed). *)
C5_DriftDetected ==
    [][\A listOk \in BOOLEAN : reconcile_indexes(listOk) =>
          \A d \in DocIds : docs[d].status = INDEXED =>
              IF ExpectedCollection(docs[d]) \notin ListedCollections(listOk)
              THEN /\ InsertedJobsOfType(d, REINDEX) # {}
                   /\ \A j \in InsertedJobsOfType(d, REINDEX) : jobs'[j].job_status = QUEUED
                   /\ docs'[d].file_size = docs[d].file_size
                   /\ docs'[d].checksum = docs[d].checksum
                   /\ docs'[d].mtime = docs[d].mtime
              ELSE Cardinality(InsertedJobsOfType(d, REINDEX)) =
                       IF OnDisk(docs[d]) /\ IsChanged(docs[d], Meta(docs[d].source_path))
                       THEN 1 ELSE 0]_vars

\* a touched, unchanged file whose Document was INDEXED with no collection in
\* the index: the pass queued a REINDEX job and kept the stored mtime
C5_Witness ==
    \E d \in DocIds : \E j \in JobIds :
        /\ docs[d].status = REINDEXING
        /\ ExpectedCollection(docs[d]) \notin chroma
        /\ OnDisk(docs[d])
        /\ ~IsChanged(docs[d], Meta(docs[d].source_path))
        /\ docs[d].mtime # fs[docs[d].source_path].mtime
        /\ jobs[j].document_id = d /\ jobs[j].job_type = REINDEX
        /\ jobs[j].job_status = QUEUED


\* the loop of a worker pass is over and the report is about to be returned
ReadyToReturn == wk.pc = "loop" /\ wk.pos > Len(wk.batch)

\* a step of the loop of a worker pass
WorkerStep ==
    \/ run_index_worker_claim
    \/ \E how \in {"ok", "raise_early", "raise_late"} : run_index_worker_execute(how)

QueuedJobs == {j \in JobIds : jobs[j].job_status = QUEUED}

(* C6: a worker pass with bound limit selects exactly the min(limit, n) oldest
   of the n QUEUED jobs, in ascending order of creation time, and a job
   enqueued earlier is never executed after a job enqueued later. *)
C6_FifoOrder ==
    /\ [][\A limit \in 1..MaxLimit : run_index_worker_select(limit) =>
             LET batch == wk'.batch
             IN  /\ Len(batch) = Min({limit, Cardinality(QueuedJobs)})
                 /\ Range(batch) \subseteq QueuedJobs
                 /\ \A i, k \in DOMAIN batch :
                        i < k => jobs[batch[i]].created_at < jobs[batch[k]].created_at
                 /\ \A j \in QueuedJobs \ Range(batch) : \A i \in DOMAIN batch :
                        jobs[batch[i]].created_at < jobs[j].created_at]_vars
    /\ [](\A i, k \in DOMAIN execLog :
              i < k => jobs[execLog[i]].created_at < jobs[execLog[k]].created_at)

\* a pass whose bound is below the queue length: one job of the batch is
\* executed, the next one is being executed, and a younger job stays QUEUED
C6_Witness ==
    /\ wk.pc = "exec"
    /\ wk.pos = 2
    /\ Len(execLog) >= 1
    /\ \E j \in QueuedJobs : j \notin Range(wk.batch)

(* C7: a step of the worker loop changes no job other than the job being
   processed (and the not-found jobs whose marking it flushes) and no Document
   other than that job's; and when the loop is over every selected job has been
   visited, whatever the outcome of the others: a job whose processing
   succeeded is SUCCEEDED and one whose processing failed is FAILED. *)
C7_FailureIsolation ==
    /\ [][WorkerStep =>
             LET j == wk.batch[wk.pos]
             IN  /\ \A k \in JobIds : (k # j /\ k \notin wk.dirty) => jobs'[k] = jobs[k]
                 /\ \A d \in DocIds : d # jobs[j].document_id => docs'[d] = docs[d]
                 /\ DOMAIN docs' = DOMAIN docs]_vars
    /\ [](ReadyToReturn =>
             /\ Len(wk.outcome) = Len(wk.batch)
             /\ \A k \in DOMAIN wk.batch :
                    /\ wk.outcome[k] = "ok" => jobs[wk.batch[k]].job_status = SUCCEEDED
                    /\ wk.outcome[k] \in {"raised", "file_missing", "vanished"} =>
                           jobs[wk.batch[k]].job_status = FAILED)

\* the loop is over, and a job that failed was followed by one that succeeded
C7_Witness ==
    /\ ReadyToReturn
    /\ \E i, k \in DOMAIN wk.outcome :
           /\ i < k
           /\ wk.outcome[i] \in {"raised", "file_missing"}
           /\ wk.outcome[k] = "ok"
           /\ jobs[wk.batch[i]].job_status = FAILED
           /\ jobs[wk.batch[k]].job_status = SUCCEEDED

(* C8: once a worker pass has returned, every job of the pass whose Document
   row was missing is stored FAILED with the error 'Document not found' and a
   finished timestamp, wherever it stood in the batch, and nothing was
   executed for it. *)
C8_MissingDocumentFailed ==
    [][run_index_worker_return =>
          \A k \in DOMAIN wk.batch : wk.outcome[k] = "missing" =>
              /\ jobs'[wk.batch[k]].job_status = FAILED
              /\ jobs'[wk.batch[k]].error_message = "Document not found"
              /\ jobs'[wk.batch[k]].finished_at = Stamped
              /\ wk.batch[k] \notin Range(execLog')]_vars

\* the document rows that are not DELETED and have the path p
LiveDocsAt(table, p) ==
    {d \in DOMAIN table : table[d].source_path = p /\ table[d].status # DELETED}

(* C9: at most one Document that is not DELETED exists per source path; no
   step inserts a Document for a path that already has a row that is not
   DELETED; an upload inserts a Document only if no Document that is not
   DELETED has its file name or its checksum; and an upload that does not
   insert leaves the rows of the catalog and the queue as they were. *)
C9_UniquePath ==
    /\ [](\A p \in Paths : Cardinality(LiveDocsAt(docs, p)) <= 1)
    /\ [][\A p \in Paths : LiveDocsAt(docs, p) # {} =>
             \A d \in DOMAIN docs' : d \notin DocIds => docs'[d].source_path # p]_vars
    /\ [][upload_document =>
             IF check_duplicate_file(up.name, Checksum(up.content))
                \/ LiveDocsAt(docs, up.path) # {}
             THEN docs' = docs /\ jobs' = jobs
             ELSE DOMAIN docs' # DOMAIN docs]_vars

\* an upload was refused by the unique constraint: reconciliation ran while
\* the upload was writing its file and created the Document of the path from
\* the part it read; the file is complete and the only row is that Document
C9_Witness ==
    /\ env = 0 /\ uploads = 1 /\ up = NoUpload
    /\ \A d \in DocIds : docs[d].filename = NoName
    /\ \E d \in DocIds :
           /\ docs[d].status # DELETED
           /\ OnDisk(docs[d])
           /\ IsChanged(docs[d], Meta(docs[d].source_path))

\* the status of a stored job changes from a to b in this step
Transition(j, a, b) == jobs[j].job_status = a /\ jobs'[j].job_status = b

(* C10 (as stated): the only changes of a stored job status are
   QUEUED -> RUNNING, RUNNING -> SUCCEEDED and RUNNING -> FAILED. *)
C10_OnlyThreeTransitions ==
    [][\A j \in JobIds : jobs'[j].job_status # jobs[j].job_status =>
          \/ Transition(j, QUEUED, RUNNING)
          \/ Transition(j, RUNNING, SUCCEEDED)
          \/ Transition(j, RUNNING, FAILED)]_vars

(* C10 (amended): the only changes of a stored job status are
   QUEUED -> RUNNING, RUNNING -> SUCCEEDED, RUNNING -> FAILED, and
   QUEUED -> FAILED with the error 'Document not found' for a job whose
   Document row is missing; no stored job is ever removed. *)
C10_JobStateMachine ==
    [][/\ JobIds \subseteq DOMAIN jobs'
       /\ \A j \in JobIds : jobs'[j].job_status # jobs[j].job_status =>
          \/ Transition(j, QUEUED, RUNNING)
          \/ Transition(j, RUNNING, SUCCEEDED)
          \/ Transition(j, RUNNING, FAILED)
          \/ /\ Transition(j, QUEUED, FAILED)
             /\ jobs'[j].error_message = "Document not found"
             /\ jobs[j].document_id \notin DocIds]_vars

\* one job went QUEUED -> RUNNING -> SUCCEEDED and another was stored FAILED
\* with 'Document not found'
C10_Witness ==
    \E j, k \in JobIds :
        /\ jobs[j].job_status = SUCCEEDED
        /\ jobs[k].job_status = FAILED
        /\ jobs[k].error_message = "Document not found"

TerminalStatus == {SUCCEEDED, FAILED}

(* C11: once a stored job is SUCCEEDED or FAILED no step changes it again: its
   status (and error message and finished timestamp) stay as they are under
   every sequence of reconciliation passes, worker passes and changes of the
   environment; in particular a failed job never becomes QUEUED or RUNNING. *)
C11_TerminalAbsorbing ==
    [][\A j \in JobIds : jobs[j].job_status \in TerminalStatus =>
          j \in DOMAIN jobs' /\ jobs'[j] = jobs[j]]_vars

\* a worker pass is executing a job while an older job, not of its batch, is
\* FAILED
C11_Witness ==
    /\ wk.pc = "exec"
    /\ \E j \in JobIds :
           /\ jobs[j].job_status = FAILED
           /\ j \notin Range(wk.batch)
           /\ jobs[j].created_at < jobs[wk.batch[wk.pos]].created_at

\* the path has rows, and every one of them is DELETED
OnlyDeletedAt(p) ==
    /\ HasDoc(docs, p)
    /\ \A d \in DocIds : docs[d].source_path = p => docs[d].status = DELETED

(* C12: whenever a PDF is on disk and the only catalog row of its path is
   DELETED, a reconciliation pass treats the file as new: the path is in the
   pass's to_index list, from which the PENDING Document and its INDEX job
   are created. *)
C12_DeletedTreatedAsNew ==
    \A p \in LocalPaths : OnlyDeletedAt(p) => p \in Range(ToIndex)

(* C13: after every reconciliation pass that committed, every Document whose
   file is on disk has stored file_size and checksum equal to the fingerprint
   of the file, and the pass changed no Document's version. *)
C13_CatalogMatchesDisk ==
    [][ReconcileStep =>
          /\ \A d \in DOMAIN docs' : OnDisk(docs'[d]) =>
                 /\ docs'[d].file_size = Meta(docs'[d].source_path).file_size
                 /\ docs'[d].checksum = Meta(docs'[d].source_path).checksum
          /\ \A d \in DocIds : docs'[d].version = docs[d].version]_vars

\* the file of the row is on disk with the stored size and checksum
SameContent(row) ==
    /\ OnDisk(row)
    /\ FileSize(fs[row.source_path].content) = row.file_size
    /\ Checksum(fs[row.source_path].content) = row.checksum

(* C14: a Document whose file is on disk with the stored size and checksum,
   whatever its mtime, and which shows no index drift to the pass (it is not
   INDEXED, or its expected collection is among those the pass listed) gets no
   job from a reconciliation pass and its row is left exactly as it was. *)
C14_UnchangedLeftAlone ==
    [][\A listOk \in BOOLEAN : reconcile_indexes(listOk) =>
          \A d \in DocIds :
              (/\ SameContent(docs[d])
               /\ ~(/\ docs[d].status = INDEXED
                    /\ ExpectedCollection(docs[d]) \notin ListedCollections(listOk))) =>
                  /\ InsertedJobs(d) = {}
                  /\ docs'[d] = docs[d]]_vars

\* a Document whose file was touched (another mtime, same content) has no
\* job but the one it was created with, next to a Document with a higher id
C14_Witness ==
    \E d, e \in DocIds :
        /\ d < e
        /\ SameContent(docs[d])
        /\ docs[d].mtime # fs[docs[d].source_path].mtime
        /\ docs[d].status = PENDING
        /\ Cardinality({j \in JobIds : jobs[j].document_id = d}) = 1
        /\ \E j \in JobIds : jobs[j].document_id = e /\ jobs[j].job_type = INDEX

\* the step executes job j, of type INDEX or REINDEX, and stores it SUCCEEDED
IndexingSucceeds(j) ==
    /\ \E how \in {"ok", "raise_early", "raise_late"} : run_index_worker_execute(how)
    /\ j = wk.batch[wk.pos]
    /\ jobs[j].job_type \in {INDEX, REINDEX}
    /\ jobs'[j].job_status = SUCCEEDED

(* C15: when an INDEX or REINDEX job ends SUCCEEDED its Document is INDEXED
   and its chroma_collection is the name derived from the source path; that
   collection is in the vector index (processing populated it) and is the name
   reconciliation expects, so a pass that follows with nothing changed finds
   no index drift for the Document. *)
C15_SuccessEffect ==
    [][\A j \in JobIds : IndexingSucceeds(j) =>
          LET d == jobs[j].document_id
          IN  /\ docs'[d].status = INDEXED
              /\ docs'[d].chroma_collection = PathCollection(docs[d].source_path)
              /\ docs'[d].chroma_collection \in chroma'
              /\ ExpectedCollection(docs'[d]) = docs'[d].chroma_collection
              /\ ~IsChromaMissing(docs'[d], chroma')]_vars

\* an INDEX job is SUCCEEDED, its Document is INDEXED and points to a
\* collection of the vector index
C15_Witness ==
    \E j \in JobIds :
        /\ jobs[j].job_type = INDEX /\ jobs[j].job_status = SUCCEEDED
        /\ jobs[j].document_id \in DocIds
        /\ docs[jobs[j].document_id].status = INDEXED
        /\ docs[jobs[j].document_id].chroma_collection \in chroma

(* C16: in every step the version of every Document grows by exactly 1 if
   the step stores an INDEX or REINDEX job of the Document SUCCEEDED, and is
   unchanged otherwise (reconciliation, the start-up pass, a failed job, a
   DELETE job, the environment); so it never decreases. *)
C16_VersionMonotonic ==
    [][\A d \in DocIds : d \in DOMAIN docs' =>
          docs'[d].version =
              IF \E j \in JobIds : jobs[j].document_id = d /\ IndexingSucceeds(j)
              THEN docs[d].version + 1
              ELSE docs[d].version]_vars

\* a Document indexed twice (version 3) that a later pass set to REINDEXING
\* or DELETED without touching the version
C16_Witness ==
    \E d \in DocIds :
        /\ docs[d].version = 3
        /\ docs[d].status \in {REINDEXING, DELETED}

(* C17: when an INDEX or REINDEX job is executed and the file of its Document
   is not on disk, processing is not invoked (nothing is logged as executed,
   the vector index is untouched), the job is stored FAILED with a 'file not
   found' message and a finished timestamp, the Document's row is left exactly
   as it was, and the pass moves on to the next position of its batch. *)
C17_FileMissingAtExecution ==
    [][(\E how \in {"ok", "raise_early", "raise_late"} : run_index_worker_execute(how)) =>
          LET j == wk.batch[wk.pos]
              d == jobs[j].document_id
          IN  (/\ d \in DocIds
               /\ jobs[j].job_type \in {INDEX, REINDEX}
               /\ fs[docs[d].source_path] = NoFile) =>
                  /\ execLog' = execLog
                  /\ chroma' = chroma
                  /\ jobs'[j].job_status = FAILED
                  /\ jobs'[j].error_message = "file not found"
                  /\ jobs'[j].finished_at = Stamped
                  /\ docs'[d] = docs[d]
                  /\ wk'.pc = "loop" /\ wk'.pos = wk.pos + 1
                  /\ wk'.batch = wk.batch]_vars

\* a pass of two jobs is over: the first failed for its missing file and
\* left its Document in its in-flight status, the second was visited after it
C17_Witness ==
    /\ ReadyToReturn
    /\ Len(wk.batch) = 2 /\ Len(wk.outcome) = 2
    /\ wk.outcome[1] = "file_missing"
    /\ jobs[wk.batch[1]].error_message = "file not found"
    /\ jobs[wk.batch[1]].document_id \in DocIds
    /\ docs[jobs[wk.batch[1]].document_id].status \in {PENDING, REINDEXING}
    /\ jobs[wk.batch[2]].job_status \in TerminalStatus

\* the step executes job j, of type INDEX or REINDEX, whose Document row
\* exists, and stores it FAILED
IndexingFails(j) ==
    /\ \E how \in {"ok", "raise_early", "raise_late"} : run_index_worker_execute(how)
    /\ j = wk.batch[wk.pos]
    /\ jobs[j].job_type \in {INDEX, REINDEX}
    /\ jobs[j].document_id \in DocIds
    /\ jobs'[j].job_status = FAILED

(* C18 (as stated): whenever an INDEX or REINDEX job ends FAILED because its
   execution raised an error, the job's Document gets the status FAILED. *)
C18_DocumentFailedOnError ==
    [][\A j \in JobIds : IndexingFails(j) =>
          docs'[jobs[j].document_id].status = DOC_FAILED]_vars

(* C18 (amended): whenever an INDEX or REINDEX job ends FAILED because its
   execution raised an error, the job's Document is left exactly as it was,
   in the status it had before the job (PENDING, REINDEXING, ...); no
   Document ever has the status FAILED. *)
C18_DocumentKeptOnError ==
    /\ [][\A j \in JobIds : IndexingFails(j) =>
             docs'[jobs[j].document_id] = docs[jobs[j].document_id]]_vars
    /\ [](\A d \in DocIds : docs[d].status # DOC_FAILED)

\* processing raised for an INDEX job: the job is FAILED and its Document is
\* still PENDING
C18_Witness ==
    \E j \in JobIds :
        /\ jobs[j].job_type = INDEX
        /\ jobs[j].job_status = FAILED
        /\ jobs[j].error_message = "processing failed"
        /\ jobs[j].document_id \in DocIds
        /\ docs[jobs[j].document_id].status = PENDING

\* Document d is not indexed, its file is on disk, an INDEX or REINDEX job of
\* it has FAILED and no job of it is QUEUED or RUNNING; no pass is running
NeedsRecovery(d) ==
    /\ wk.pc = "idle"
    /\ OnDisk(docs[d])
    /\ docs[d].status \in {PENDING, REINDEXING}
    /\ \E j \in JobIds :
           /\ jobs[j].document_id = d
           /\ jobs[j].job_type \in {INDEX, REINDEX}
           /\ jobs[j].job_status = FAILED
    /\ \A j \in JobIds :
           jobs[j].document_id = d => jobs[j].job_status \in TerminalStatus

(* C19: whenever an INDEX or REINDEX job of a Document has FAILED, the
   Document is still not INDEXED, its file is on disk and none of its jobs is
   waiting, the next reconciliation pass enqueues a new job for it: the
   Document is in the pass's to_reindex list. *)
C19_RecoveryByReconciliation ==
    \A d \in DocIds : NeedsRecovery(d) =>
        \E i \in DOMAIN ToReindex(ListedCollections(TRUE)) :
            ToReindex(ListedCollections(TRUE))[i].doc = d

\* a step that is a reconciliation pass, committed or failed
ReconcileAttempt ==
    \E listOk \in BOOLEAN : reconcile_indexes(listOk) \/ reconcile_indexes_failed(listOk)

(* C20: a reconciliation pass that fails stores nothing: documents and
   index_jobs are as before; and in every pass, failed or committed, a Document
   is inserted only together with its INDEX job, a stored Document is changed
   only together with a new job for it, and a job is inserted only together
   with the insert or the change of its Document. *)
C20_AllOrNothing ==
    /\ [][(\E listOk \in BOOLEAN : reconcile_indexes_failed(listOk)) =>
             docs' = docs /\ jobs' = jobs]_vars
    /\ [][ReconcileAttempt =>
             /\ \A d \in DOMAIN docs' :
                    IF d \notin DocIds
                    THEN InsertedJobsOfType(d, INDEX) # {}
                    ELSE docs'[d] # docs[d] => InsertedJobs(d) # {}
             /\ \A j \in DOMAIN jobs' : j \notin JobIds =>
                    LET d == jobs'[j].document_id
                    IN  /\ d \in DOMAIN docs'
                        /\ d \notin DocIds \/ docs'[d] # docs[d]
             /\ DocIds \subseteq DOMAIN docs'
             /\ \A j \in JobIds : jobs'[j] = jobs[j]]_vars

\* two Documents are stored PENDING, each with its QUEUED INDEX job, the two
\* jobs next to each other on the clock, as a committed pass over two new
\* files leaves them
C20_Witness ==
    \E d, e \in DocIds : \E j, k \in JobIds :
        /\ d # e
        /\ docs[d].status = PENDING
        /\ jobs[j].document_id = d /\ jobs[j].job_type = INDEX /\ jobs[j].job_status = QUEUED
        /\ docs[e].status = PENDING
        /\ jobs[k].document_id = e /\ jobs[k].job_type = INDEX /\ jobs[k].job_status = QUEUED
        /\ jobs[k].created_at = jobs[j].created_at + 1

\* a step that executes the job a worker pass has marked RUNNING
ExecuteStep == \E how \in {"ok", "raise_early", "raise_late"} : run_index_worker_execute(how)

(* C21: while a worker pass executes a job the stored status of the job is
   RUNNING (it was committed before); the step that ends the execution stores
   the terminal status of the job together with the changes of its Document:
   an INDEX or REINDEX job is stored SUCCEEDED only in the step that stores
   its Document INDEXED with the next version, and a step of the execution
   that changes a Document stores the job SUCCEEDED or FAILED. *)
C21_PerJobTransaction ==
    /\ [](wk.pc = "exec" => jobs[wk.batch[wk.pos]].job_status = RUNNING)
    /\ [][execLog' # execLog =>
             /\ wk.pc = "exec"
             /\ execLog' = Append(execLog, wk.batch[wk.pos])]_vars
    /\ [][\A j \in JobIds :
             (Transition(j, RUNNING, SUCCEEDED) /\ jobs[j].job_type \in {INDEX, REINDEX}) =>
                 LET d == jobs[j].document_id
                 IN  /\ d \in DocIds /\ d \in DOMAIN docs'
                     /\ docs'[d].status = INDEXED
                     /\ docs'[d].version = docs[d].version + 1]_vars
    /\ [][(ExecuteStep /\ docs' # docs) =>
             LET j == wk.batch[wk.pos]
             IN  /\ jobs[j].job_status = RUNNING
                 /\ jobs'[j].job_status \in TerminalStatus
                 /\ \A d \in DocIds : docs'[d] # docs[d] => d = jobs[j].document_id]_vars

\* a pass has stored its first job SUCCEEDED with the Document INDEXED, and
\* the second job of the batch is stored RUNNING and about to be executed
C21_Witness ==
    /\ wk.pc = "exec"
    /\ wk.pos = 2
    /\ LET j == wk.batch[1]
           k == wk.batch[2]
       IN  /\ jobs[j].job_status = SUCCEEDED
           /\ jobs[j].job_type = INDEX
           /\ jobs[j].document_id \in DocIds
           /\ docs[jobs[j].document_id].status = INDEXED
           /\ docs[jobs[j].document_id].version = 2
           /\ jobs[k].job_status = RUNNING
           /\ jobs[k].document_id \in DocIds
           /\ docs[jobs[k].document_id].status = PENDING

(* C22: a reconciliation pass in which the listing of the collections fails
   (or there is no index client) is carried out and stored like any other:
   the new files get their Document and INDEX job, the orphans their DELETE
   job, and, the set of live collections being taken as empty, every Document
   that was INDEXED gets a REINDEX job. *)
C22_DriftCheckFailureNotFatal ==
    [][reconcile_indexes(FALSE) =>
          /\ \A d \in DocIds : docs[d].status = INDEXED =>
                 InsertedJobsOfType(d, REINDEX) # {}
          /\ \A p \in Paths : IsNewFile(p) =>
                 \E d \in DOMAIN docs' \ DocIds :
                     docs'[d].source_path = p /\ InsertedJobsOfType(d, INDEX) # {}
          /\ \A d \in DocIds : IsOrphan(docs[d]) => InsertedJobsOfType(d, DELETE) # {}]_vars

\* the environment has done nothing but write one file, and the Document of
\* that file, indexed with its collection live, is REINDEXING with a QUEUED
\* REINDEX job: a pass that could not list the collections
C22_Witness ==
    \E d \in DocIds : \E j \in JobIds :
        /\ env = 1
        /\ docs[d].status = REINDEXING
        /\ docs[d].chroma_collection # NoCollection
        /\ docs[d].chroma_collection \in chroma
        /\ OnDisk(docs[d])
        /\ SameContent(docs[d])
        /\ jobs[j].document_id = d
        /\ jobs[j].job_type = REINDEX
        /\ jobs[j].job_status = QUEUED
        /\ \A k \in JobIds : jobs[k].document_id = d /\ k # j => jobs[k].job_status = SUCCEEDED

(* C23: a worker pass called with bound limit takes at most limit jobs, and
   the report it returns is accurate: processed is the number of jobs taken,
   processed = succeeded + failed, and remaining is the number of jobs stored
   QUEUED when the call returns. *)
C23_ReportAccurate ==
    /\ [][\A limit \in 1..MaxLimit : run_index_worker_select(limit) =>
             Len(wk'.batch) <= limit]_vars
    /\ [][run_index_worker_return =>
             /\ wk.processed = Len(wk.batch)
             /\ wk.processed = wk.succeeded + wk.failed
             /\ Remaining = Cardinality({j \in DOMAIN jobs' : jobs'[j].job_status = QUEUED})]_vars

(* C24: when the worker is called again and again, with whatever bounds, every
   job that is stored QUEUED is eventually stored SUCCEEDED or FAILED (the
   jobs ever enqueued are finitely many, so from some point on no job is
   added). *)
C24_NoStarvation ==
    \A j \in 1..MaxJobs :
        (j \in JobIds /\ jobs[j].job_status = QUEUED)
            ~> (j \in JobIds /\ jobs[j].job_status \in TerminalStatus)

(* C25: two reconciliation passes that overlap in time never enqueue two jobs
   for the same Document and the same drift: when a pass stores its jobs and
   nothing in the upload directory or the vector index has changed since it
   read, no job it stores has the Document and the type of a job stored by
   another pass since it read. *)
C25_NoDoubleEnqueue ==
    [][(reconcile_indexes_write /\ rc.env = env) =>
          \A j \in DOMAIN jobs' \ JobIds : \A k \in JobIds :
              k > rc.seen =>
                  ~(/\ jobs[k].document_id = jobs'[j].document_id
                    /\ jobs[k].job_type = jobs'[j].job_type)]_vars

\* the job was handed to its capability more than once
ExecutedTwice(j) == \E a, b \in DOMAIN execLog : a # b /\ execLog[a] = j /\ execLog[b] = j

(* C26: with two calls of the worker in progress at a time the step from
   QUEUED to RUNNING is no guarded claim: a call marks RUNNING and executes
   every job of the batch it selected whose Document exists, whatever the
   stored status of the job has become meanwhile; so a job selected by both
   calls while it was QUEUED is executed twice. *)
C26_UnguardedClaim ==
    [][run_index_worker_claim =>
          LET j == wk.batch[wk.pos]
          IN  jobs[j].document_id \in DocIds =>
                  /\ jobs'[j].job_status = RUNNING
                  /\ wk'.pc = "exec"
                  /\ wk'.batch[wk'.pos] = j]_vars

\* the call that runs has just executed, for the second time, a job that is
\* stored SUCCEEDED and that the other call had executed before it
C26_Witness ==
    /\ wk.pc = "loop"
    /\ wk.pos > 1
    /\ wk.outcome[wk.pos - 1] = "ok"
    /\ LET j == wk.batch[wk.pos - 1]
       IN  /\ ExecutedTwice(j)
           /\ execLog[Len(execLog)] = j
           /\ jobs[j].job_status = SUCCEEDED

(* C27: every change of the status of a Document away from PENDING or away
   from REINDEXING is made by the worker in the execution of a job of that
   Document; no other operation makes such a change. *)
C27_SingleWriter ==
    [][\A d \in DocIds :
          (/\ docs[d].status \in {PENDING, REINDEXING}
           /\ d \in DOMAIN docs'
           /\ docs'[d].status # docs[d].status) =>
              /\ ExecuteStep
              /\ jobs[wk.batch[wk.pos]].document_id = d]_vars

(* C28: in every reachable state the status of every Document is one of
   pending, indexing, indexed, reindexing, failed, deleted, the type of every
   job is one of index, reindex, delete and the status of every job is one of
   queued, running, succeeded, failed: no operation hands another value to
   the store. *)
C28_ClosedEnumerations ==
    /\ \A d \in DocIds : docs[d].status \in DocumentStatus
    /\ \A j \in JobIds :
           /\ jobs[j].job_type \in IndexJobType
           /\ jobs[j].job_status \in IndexJobStatus

\* the background processing of an upload has stored its Document indexed,
\* its collection is in the index, and a job of the queue has been executed
C28_Witness ==
    /\ bg = {}
    /\ \E d \in DocIds :
           /\ docs[d].filename # NoName
           /\ docs[d].status = INDEXED
           /\ docs[d].version = 1
           /\ UploadCollection(docs[d].source_path) \in chroma
    /\ \E j \in JobIds : jobs[j].job_status \in TerminalStatus

\* the collections of the index that hold chunks of the file of the row
CollectionsOf(row) == {c \in chroma : c.of = row.source_path}

(* C29: in every reachable state at most one collection of the vector index
   holds the chunks of a given Document, whether the Document was created by
   an upload or by reconciliation, and also after it was reindexed. *)
C29_OneCollectionPerDocument ==
    \A d \in DocIds : Cardinality(CollectionsOf(docs[d])) <= 1

(* C30: with one call of the worker at a time the capability of a job is
   executed at most once over any sequence of passes, crashes included: a
   pass selects only jobs stored QUEUED, and a job stored RUNNING while no
   pass is in progress (left so by a crash) is never selected and never
   changed again. *)
C30_AtMostOnce ==
    /\ [](\A j \in 1..MaxJobs : ~ExecutedTwice(j))
    /\ [][\A limit \in 1..MaxLimit : run_index_worker_select(limit) =>
             \A i \in DOMAIN wk'.batch : jobs[wk'.batch[i]].job_status = QUEUED]_vars
    /\ [][\A j \in JobIds : (jobs[j].job_status = RUNNING /\ wk.pc = "idle") =>
             /\ j \in DOMAIN jobs' /\ jobs'[j] = jobs[j]
             /\ j \notin Range(wk'.batch)]_vars

\* a job whose execution was cut by a crash is stored RUNNING and was handed
\* to its capability once; a later pass has executed the next job and has
\* returned
C30_Witness ==
    /\ wk.pc = "idle"
    /\ Len(execLog) = 2
    /\ LET j == execLog[1]
           k == execLog[2]
       IN  /\ j # k
           /\ jobs[j].job_status = RUNNING
           /\ jobs[k].job_status = SUCCEEDED
           /\ jobs[j].created_at < jobs[k].created_at

\* the step executes a DELETE job j whose Document exists
DeleteExecuted(j) ==
    /\ ExecuteStep
    /\ j = wk.batch[wk.pos]
    /\ jobs[j].job_type = DELETE
    /\ jobs[j].document_id \in DocIds

(* C31: the execution of a DELETE job whose Document exists ends with the job
   SUCCEEDED, whether or not the Document has a collection, with the Document
   DELETED, and with no collection left in the vector index that holds the
   chunks of the Document. *)
C31_DeleteEffect ==
    [][\A j \in JobIds : DeleteExecuted(j) =>
          LET d == jobs[j].document_id
          IN  /\ jobs'[j].job_status = SUCCEEDED
              /\ docs'[d].status = DELETED
              /\ {c \in chroma' : c.of = docs[d].source_path} = {}]_vars

(* C32: in every reachable state a stored job has a finished timestamp if and
   only if its status is SUCCEEDED or FAILED, and it has an error message
   only if its status is FAILED (one call of the worker at a time). *)
C32_FinishedMarksTerminal ==
    \A j \in JobIds :
        /\ jobs[j].finished_at # Null <=> jobs[j].job_status \in TerminalStatus
        /\ jobs[j].error_message # Null => jobs[j].job_status = FAILED

\* a pass has stored the failure of its first job, with message and
\* timestamp, and is executing the second, stored RUNNING without timestamp
C32_Witness ==
    /\ wk.pc = "exec"
    /\ wk.pos = 2
    /\ LET j == wk.batch[1]
           k == wk.batch[2]
       IN  /\ jobs[j].job_status = FAILED
           /\ jobs[j].error_message # Null
           /\ jobs[j].finished_at = Stamped
           /\ jobs[k].job_status = RUNNING
           /\ jobs[k].finished_at = Null

(* C33: a reconciliation pass enqueues at most one job for any one Document,
   also when its file changed and its collection is missing, or its file is
   gone and its collection is missing. *)
C33_OneJobPerDocumentPerPass ==
    [][ReconcileStep => \A d \in DOMAIN docs' : Cardinality(InsertedJobs(d)) <= 1]_vars

\* the plan of a pass fits the bounds of the model
PlanFits ==
    LET ti == ToIndex
        tr == ToReindex(ListedCollections(TRUE))
    IN  /\ Len(jobs) + Len(JobPlan(ti, tr, ToDelete, nextDoc)) <= MaxJobs
        /\ nextDoc + Len(ti) - 1 <= MaxDocs

\* no job is QUEUED and every file on disk has a Document that is INDEXED
\* and whose collection is in the vector index
Converged ==
    /\ QueuedJobs = {}
    /\ \A p \in Paths : fs[p] # NoFile =>
           \E d \in DocIds :
               /\ docs[d].source_path = p
               /\ docs[d].status = INDEXED
               /\ ExpectedCollection(docs[d]) \in chroma

(* C34: once the upload directory no longer changes, the listing of
   collections works and processing succeeds, reconciliation passes and
   worker passes run again and again lead, from every state reached until
   then, to a state with no QUEUED job in which every PDF on disk has a
   Document with status INDEXED whose collection is in the vector index. *)
C34_Convergence == (env = MaxEnvSteps) ~> (Converged \/ ~PlanFits)

\* the step is the upload background processing of document d, and it succeeds
BackgroundSucceeds(d) ==
    \E t \in bg : /\ t.doc = d
                  /\ process_document_background(t, "ok")
                  /\ fs[t.path] # NoFile

\* the step makes document d INDEXED
BecomesIndexed(d) ==
    /\ d \in DOMAIN docs'
    /\ docs'[d].status = INDEXED
    /\ d \in DocIds => docs[d].status # INDEXED

(* C35: the status of a Document becomes INDEXED only in a step in which a
   processing run for that Document has just completed: an INDEX or REINDEX
   job of it ends SUCCEEDED, or its upload background processing succeeds. *)
C35_IndexedMeansProcessed ==
    [][\A d \in DOMAIN docs' : BecomesIndexed(d) =>
          \/ \E j \in JobIds : IndexingSucceeds(j) /\ jobs[j].document_id = d
          \/ BackgroundSucceeds(d)]_vars

\* the step removes a documents row out of band
RowRemoved == \E d \in DocIds : DbDeleteDocument(d, MaxEnvSteps)

EmptyDirectory == LocalPaths = {}

(* C37, as stated: a reconciliation pass over an upload directory without
   PDFs creates or modifies no Document and enqueues no job. *)
C37_EmptyDirectoryZeroDiffs ==
    [][(ReconcileStep /\ EmptyDirectory) => (docs' = docs /\ jobs' = jobs)]_vars

(* C37, amended: a reconciliation pass over an upload directory without PDFs
   creates no Document and enqueues no INDEX job; it leaves every DELETED
   Document as it is, marks every other Document DELETED with a DELETE job,
   and enqueues jobs for no other Document; when the catalog holds no
   Document that is not DELETED it changes nothing. *)
C37_EmptyDirectoryOrphansOnly ==
    [][(ReconcileStep /\ EmptyDirectory) =>
          /\ DOMAIN docs' = DocIds
          /\ \A j \in DOMAIN jobs' \ JobIds :
                 /\ jobs'[j].job_type # INDEX
                 /\ jobs'[j].document_id \in DocIds
                 /\ docs[jobs'[j].document_id].status # DELETED
          /\ \A d \in DocIds :
                 IF docs[d].status = DELETED
                 THEN docs'[d] = docs[d]
                 ELSE /\ docs'[d].status = DELETED
                      /\ Cardinality(InsertedJobsOfType(d, DELETE)) = 1
          /\ (\A d \in DocIds : docs[d].status = DELETED) =>
                 (docs' = docs /\ jobs' = jobs)]_vars

\* the directory is empty, a pass has marked a Document DELETED and enqueued
\* its DELETE job, and another Document was DELETED before
C37_Witness ==
    /\ EmptyDirectory
    /\ wk.pc = "idle"
    /\ \E j \in JobIds :
           /\ jobs[j].job_type = DELETE
           /\ jobs[j].job_status = QUEUED
           /\ jobs[j].document_id \in DocIds
           /\ docs[jobs[j].document_id].status = DELETED

\* the documents whose status a step changes
StatusChanged == {d \in DocIds : d \in DOMAIN docs' /\ docs'[d].status # docs[d].status}

(* C38: in the result of every reconciliation pass enqueued equals
   to_index + to_reindex + to_delete and the number of jobs the pass inserts,
   created equals the number of Documents it inserts, updated equals the
   number of Documents whose status it changes, and each sample list holds at
   most 5 paths. *)
C38_SummaryConsistent ==
    [][\A listOk \in BOOLEAN : reconcile_indexes(listOk) =>
          LET r == ReconcileSummary(listOk)
              s == ReconcileSamples(listOk)
          IN  /\ r.enqueued = r.to_index + r.to_reindex + r.to_delete
              /\ r.enqueued = Cardinality(DOMAIN jobs' \ JobIds)
              /\ r.created = Cardinality(DOMAIN docs' \ DocIds)
              /\ r.updated = Cardinality(StatusChanged)
              /\ \A k \in DOMAIN s : Len(s[k]) <= 5]_vars

====
